---- MODULE Spec2Model ----
(***************************************************************************)
(* Model of the pipeline coordinator (main.py: run_pipeline_stage,         *)
(* run_full_pipeline) and of the uploader (uploader/upload.py:             *)
(* _retry_upload, upload_to_*, upload_all_platforms).                      *)
(*                                                                         *)
(* Python values are records tagged with their type, so that truthiness    *)
(* ("if not result", "any(...)") is computed as Python computes it.        *)
(* calls is a history variable: the log of collaborator invocations.       *)
(*                                                                         *)
(* A second specification, SpecTechnician, models the TechnicianAgent      *)
(* (technician_agent/technician.py) over a log directory and a QC report   *)
(* directory that other components write to.                               *)
(* SpecArtifacts is the same agent on a filesystem where either artifact   *)
(* of generate_diagnostic_report may be unwritable. SpecGenerators models  *)
(* the retry loops of generate_script and generate_voiceover. SpecMain     *)
(* models main.py from its first import: the startup checks, the single    *)
(* run, and the scheduler that reuses the modules for every run.           *)
(***************************************************************************)
EXTENDS Integers, Sequences, FiniteSets, TLC

\* ----------------------------------------------------------------- bounds
\* largest value of config.platforms[p]["max_retries"] that is explored
MaxRetries == 4
\* largest value of config.platforms[p]["retry_delay"] that is explored
MaxBaseDelay == 2
\* largest number of lines other components write to the log directory
MaxLogLines == 2
\* largest number of report files in the QC report directory
MaxQCReports == 1
\* largest number of analyze_logs calls on one TechnicianAgent
MaxAnalyzeCalls == 2
\* largest number of scheduled runs in one scheduler process
MaxRuns == 3
\* largest number of rows the performance CSV holds when the process starts
MaxStoredRows == 1

\* ---------------------------------------------------------- Python values
NoneVal == [type |-> "NoneType"]
PathVal(s) == [type |-> "path", value |-> s]
DictVal(f) == [type |-> "dict", items |-> f]
EmptyItems == [k \in {} |-> NoneVal]

\* bool(v) is False: None, an empty dict, an empty string or path
Falsy(v) ==
    \/ v.type = "NoneType"
    \/ (v.type = "dict" /\ DOMAIN v.items = {})
    \/ (v.type \in {"str", "path"} /\ v.value = "")

IsNone(v) == v.type = "NoneType"

\* ------------------------------------------------------------ the stages
StageOrder ==
    << "ingestion", "script_generation", "animation", "voice_generation",
       "video_composition", "quality_control", "upload" >>

StageNames == { StageOrder[i] : i \in 1..Len(StageOrder) }

StageIndex(s) == CHOOSE i \in 1..Len(StageOrder) : StageOrder[i] = s

\* what a stage collaborator can do when called: return a value or raise
\* voice_generation always returns a dict, whose "voiceover" may be None
StageOutcomes(s) ==
    IF s = "voice_generation"
    THEN { [kind |-> "return",
            value |-> DictVal([voiceover |-> PathVal("voiceover.mp3")])],
           [kind |-> "return", value |-> DictVal([voiceover |-> NoneVal])],
           [kind |-> "raise",  value |-> NoneVal] }
    ELSE { [kind |-> "return", value |-> PathVal(s)],
           [kind |-> "return", value |-> NoneVal],
           [kind |-> "raise",  value |-> NoneVal] }

\* ------------------------------------------------------------- uploader
DefaultPlatforms == << "youtube", "tiktok", "instagram" >>
KnownPlatforms == { "youtube", "tiktok", "instagram" }

\* the platforms argument of a direct call of upload_all_platforms
RequestedLists ==
    { << >>,
      << "tiktok" >>,
      << "instagram", "youtube" >>,
      << "youtube", "vimeo", "tiktok" >> }

\* the response of a platform API call that succeeded
Response(p) == DictVal([platform |-> p])

\* what the operation handed to _retry_upload can do on one invocation:
\* the YouTube request can fail, the simulated TikTok and Instagram
\* requests always return their canned response
FuncOutcomes(p) == IF p = "youtube" THEN { "ok", "fail" } ELSE { "ok" }

\* the record kept of one call of _retry_upload: its two configuration
\* values, the invocations of the operation, the delays slept, the errors
\* seen (numbered by invocation), those logged as warnings, and how it ended
FreshRetry ==
    [ max_retries |-> 0, base_delay |-> 0, invocations |-> 0,
      sleeps |-> << >>, warnings |-> << >>, errors |-> << >>,
      outcome |-> "none", raised_error |-> 0, result |-> NoneVal ]

\* ------------------------------------------------- TechnicianAgent.__init__
\* self.findings as the constructor leaves it: five categories, all empty
ConstructedFindings ==
    [ k \in { "errors", "warnings", "performance_issues",
              "dependency_issues", "hardware_issues" } |-> << >> ]

\* the log files in the order analyze_logs reads them: one per logger, the
\* last one written by the technician's own logger
LogFileOrder == << "script_generator", "uploader", "technician_agent" >>

VARIABLES
    pc,              \* position of the thread of control
    caller,          \* "pipeline" or "direct": who called upload_all_platforms
    results,         \* the dict returned by run_full_pipeline
    calls,           \* history: collaborator invocations, in order
    end_time_sets,   \* history: number of writes of results["end_time"]
    returned,        \* history: number of times run_full_pipeline returned
    raised,          \* an exception left run_full_pipeline
    max_retries,     \* local of _retry_upload
    base_delay,      \* local of _retry_upload
    platforms,       \* the list upload_all_platforms iterates over
    idx,             \* position in platforms
    upload_results,  \* the results dict of upload_all_platforms
    attempt,         \* loop variable of _retry_upload
    retry,           \* per platform: what _retry_upload did
    exit_code,       \* the status main() handed to sys.exit, or None
    locals,          \* run_full_pipeline: per stage, the value it returned
    log_dir,         \* config.log_dir: per log file, its lines
    qc_dir,          \* config.qc_report_dir: the report files
    dependencies,    \* what importing the required modules does here
    findings,        \* TechnicianAgent.findings
    findings_call,   \* history: per category, the call that assigned it
    analyze_calls,   \* history: number of analyze_logs calls
    analyze_result,  \* what the last analyze_logs call returned
    quiet,           \* nobody but the technician wrote since the last call
    repeated,        \* history: the last call was made while quiet
    dump_file,       \* diagnostics/diagnostic.log
    plan_file,       \* diagnostics/upgrade_plan.md
    report_outcome,  \* how the last generate_diagnostic_report ended
    writes,          \* history: the file writes that call attempted
    generator,       \* the generative collaborator whose retry loop runs
    gen_config,      \* its config: max_retries and retry_delay
    client_calls,    \* history: invocations of the LLM or TTS client
    slept,           \* history: the delays its loop slept, in order
    gen_status,      \* where its loop stands
    unwritable,      \* the artifacts whose file cannot be opened for writing
    env_missing,     \* the mandatory environment variables that are not set
    main_config,     \* config/main_config.json: loadable or unloadable
    arguments,       \* the command line: single, schedule or invalid
    config_loaded,   \* what became of load_config: no, yes or failed
    performance_data, \* ContentManager.performance_data: its number of rows
    performance_csv, \* the rows of the performance CSV on disk
    youtube_service, \* Uploader.youtube_service: None or the cached service
    run_starts       \* history: the module state each scheduled run started from

vars == << pc, caller, results, calls, end_time_sets, returned, raised,
           max_retries, base_delay, platforms, idx, upload_results,
           attempt, retry, exit_code, locals, log_dir, qc_dir, dependencies,
           findings, findings_call, analyze_calls, analyze_result, quiet,
           repeated, dump_file, plan_file, report_outcome, writes,
           generator, gen_config, client_calls, slept, gen_status,
           unwritable,
           env_missing, main_config, arguments, config_loaded,
           performance_data, performance_csv, youtube_service, run_starts >>

pipelineVars == << results, end_time_sets, returned, raised >>
uploaderVars == << platforms, idx, upload_results, attempt, retry >>
configVars == << max_retries, base_delay >>
mainVars == << exit_code >>
localVars == << locals >>
directoryVars == << log_dir, qc_dir, dependencies >>
agentVars == << findings, findings_call, analyze_calls, analyze_result,
               quiet, repeated >>
reportVars == << dump_file, plan_file, report_outcome, writes >>
technicianVars == << directoryVars, agentVars, reportVars >>
schedulerVars == << performance_data, performance_csv, youtube_service, run_starts >>
startupVars == << env_missing, main_config, arguments, config_loaded >>
filesystemVars == << unwritable >>
generatorVars == << generator, gen_config, client_calls, slept, gen_status >>

\* no run of the pipeline or of the uploader has started
NoRun ==
    /\ caller = "none"
    /\ results = [ stages |-> << >>, success |-> FALSE, error |-> NoneVal,
                   end_time |-> NoneVal ]
    /\ calls = << >>
    /\ end_time_sets = 0
    /\ returned = 0
    /\ raised = FALSE
    /\ max_retries = 0
    /\ base_delay = 0
    /\ platforms = << >>
    /\ idx = 1
    /\ upload_results = EmptyItems
    /\ attempt = 0
    /\ retry = [p \in KnownPlatforms |-> FreshRetry]
    /\ exit_code = NoneVal
    /\ locals = EmptyItems

\* a TechnicianAgent just constructed; no report written yet
Constructed ==
    /\ findings = ConstructedFindings
    /\ findings_call = [k \in DOMAIN ConstructedFindings |-> 0]
    /\ analyze_calls = 0
    /\ analyze_result = "none"
    /\ quiet = FALSE
    /\ repeated = FALSE
    /\ dump_file = NoneVal
    /\ plan_file = NoneVal
    /\ report_outcome = "none"
    /\ writes = << >>

\* main() got as far as its modules: the environment is complete, the
\* configuration is loaded, the modules are constructed and no scheduled run
\* has started
ModulesInitialized ==
    /\ env_missing = {}
    /\ main_config = "loadable"
    /\ arguments = "single"
    /\ config_loaded = "yes"
    /\ performance_data = 0
    /\ performance_csv = 0
    /\ youtube_service = NoneVal
    /\ run_starts = << >>

\* no generative collaborator has been called
NoGeneration ==
    /\ generator = "none"
    /\ gen_config = [max_retries |-> 0, retry_delay |-> 0]
    /\ client_calls = 0
    /\ slept = << >>
    /\ gen_status = "none"

Init ==
    /\ pc = "idle"
    /\ NoGeneration
    /\ unwritable = {}
    /\ NoRun
    /\ ModulesInitialized
    /\ Constructed
    /\ log_dir = [f \in { LogFileOrder[i] : i \in DOMAIN LogFileOrder }
                     |-> << >>]
    /\ qc_dir = << >>
    /\ dependencies = "installed"

\* ------------------------------------------------------ run_pipeline_stage
StrVal(s) == [type |-> "str", value |-> s]

\* str(e) of an exception raised by a collaborator itself
CollaboratorError == "collaborator error"

\* main.py run_pipeline_stage: the collaborator's outcome o becomes either
\* the returned result or the exception re-raised to run_full_pipeline
run_pipeline_stage(stage_name, o) ==
    IF o.kind = "raise"
    THEN [kind |-> "raise", message |-> CollaboratorError]
    ELSE IF Falsy(o.value)
         THEN [kind |-> "raise",
               message |-> stage_name \o " returned no results"]
         ELSE [kind |-> "return", value |-> o.value]

\* how a call is entered in the history: it raised, returned something
\* falsy, or returned something truthy
CallOutcome(o) ==
    IF o.kind = "raise" THEN "raise"
    ELSE IF Falsy(o.value) THEN "return_falsy" ELSE "return"

\* mutant of AnyValue: all(...) in place of any(...)
AllValues(d) == \A k \in DOMAIN d.items : ~Falsy(d.items[k])

\* any(upload_results.values())
AnyValue(d) == \E k \in DOMAIN d.items : ~Falsy(d.items[k])

\* the entry run_full_pipeline stores in results["stages"][s]
StageEntry(s, value) ==
    [ name |-> s,
      output |->
          IF s = "upload"
          THEN [k \in DOMAIN value.items |-> ~IsNone(value.items[k])]
          ELSE IF s = "voice_generation"
               THEN value.items.voiceover.type
               ELSE value.type,
      success |->
          IF s = "upload" THEN AnyValue(value)
          ELSE IF s = "quality_control" THEN ~IsNone(value)
               ELSE TRUE ]

\* the local variable of run_full_pipeline that holds what stage s returned
Bind(l, s, v) == [x \in DOMAIN l \cup {s} |-> IF x = s THEN v ELSE l[x]]

\* the source_path argument of run_full_pipeline
SourcePath == PathVal("source")

\* mutant of StageArgs: upload is handed the animation, not the composed
\* video
StageArgsUncomposed(s, l) ==
    CASE s = "ingestion" -> << SourcePath >>
      [] s = "script_generation" -> << l["ingestion"] >>
      [] s = "animation" -> << l["script_generation"] >>
      [] s = "voice_generation" -> << l["script_generation"] >>
      [] s = "video_composition" ->
             << l["animation"], l["voice_generation"].items.voiceover >>
      [] s = "quality_control" ->
             << l["script_generation"], l["video_composition"] >>
      [] OTHER -> << l["animation"], l["script_generation"] >>

\* the positional arguments run_full_pipeline hands to run_pipeline_stage
\* for the collaborator of stage s, l being its local variables
StageArgs(s, l) ==
    CASE s = "ingestion" -> << SourcePath >>
      [] s = "script_generation" -> << l["ingestion"] >>
      [] s = "animation" -> << l["script_generation"] >>
      [] s = "voice_generation" -> << l["script_generation"] >>
      [] s = "video_composition" ->
             << l["animation"], l["voice_generation"].items.voiceover >>
      [] s = "quality_control" ->
             << l["script_generation"], l["video_composition"] >>
      [] OTHER -> << l["video_composition"], l["script_generation"] >>

\* mutant of OnPipelineError: the except clause does not store the error
OnPipelineErrorDropped(res, message) == res

\* the except clause of run_full_pipeline: results["error"] = str(e)
OnPipelineError(res, message) == [res EXCEPT !.error = StrVal(message)]

\* where control goes when the try body raises: the except clause
OnStageException == "except_analyze_logs"

\* ------------------------------------------------------------ entry points
CallRunFullPipeline ==
    /\ pc = "idle"
    /\ pc' = "ingestion"
    /\ caller' = "pipeline"
    /\ results' = [ stages |-> << >>, success |-> FALSE, error |-> NoneVal,
                    end_time |-> NoneVal ]
    /\ UNCHANGED << calls, end_time_sets, returned, raised >>
    /\ UNCHANGED uploaderVars
    /\ UNCHANGED configVars
    /\ UNCHANGED mainVars
    /\ locals' = EmptyItems
    /\ UNCHANGED technicianVars
    /\ UNCHANGED schedulerVars
    /\ UNCHANGED startupVars
    /\ UNCHANGED filesystemVars
    /\ UNCHANGED generatorVars

CallUploadAllPlatforms ==
    /\ pc = "idle"
    /\ \E requested \in RequestedLists :
           platforms' = IF requested = << >> THEN DefaultPlatforms
                        ELSE requested
    /\ pc' = "upload_platform"
    /\ caller' = "direct"
    /\ idx' = 1
    /\ upload_results' = EmptyItems
    /\ UNCHANGED << attempt, retry, calls >>
    /\ UNCHANGED pipelineVars
    /\ UNCHANGED configVars
    /\ UNCHANGED mainVars
    /\ UNCHANGED localVars
    /\ UNCHANGED technicianVars
    /\ UNCHANGED schedulerVars
    /\ UNCHANGED startupVars
    /\ UNCHANGED filesystemVars
    /\ UNCHANGED generatorVars

\* ------------------------------------------- the stages of run_full_pipeline
\* one of stages 1..6: the call of run_pipeline_stage and the bookkeeping
\* that follows it, or the entry into the except clause
StageStep(s) ==
    /\ pc = s
    /\ \E o \in StageOutcomes(s) :
        LET r == run_pipeline_stage(s, o) IN
        /\ calls' = Append(calls, [fn |-> s, outcome |-> CallOutcome(o),
                                   args |-> StageArgs(s, locals)])
        /\ IF r.kind = "raise"
           THEN /\ results' = OnPipelineError(results, r.message)
                /\ pc' = OnStageException
                /\ UNCHANGED locals
           ELSE /\ results' = [results EXCEPT
                       !.stages = Append(@, StageEntry(s, r.value))]
                /\ pc' = StageOrder[StageIndex(s) + 1]
                /\ locals' = Bind(locals, s, r.value)
    /\ UNCHANGED << caller, end_time_sets, returned, raised >>
    /\ UNCHANGED uploaderVars
    /\ UNCHANGED configVars
    /\ UNCHANGED mainVars
    /\ UNCHANGED technicianVars
    /\ UNCHANGED schedulerVars
    /\ UNCHANGED startupVars
    /\ UNCHANGED filesystemVars
    /\ UNCHANGED generatorVars

Ingestion == StageStep("ingestion")
ScriptGeneration == StageStep("script_generation")
Animation == StageStep("animation")
VoiceGeneration == StageStep("voice_generation")
VideoComposition == StageStep("video_composition")
QualityControl == StageStep("quality_control")

\* stage 7: run_pipeline_stage calls upload_all_platforms(video, script),
\* with no platforms argument
Upload ==
    /\ pc = "upload"
    /\ calls' = Append(calls, [fn |-> "upload", outcome |-> "return",
                               args |-> StageArgs("upload", locals)])
    /\ platforms' = DefaultPlatforms
    /\ idx' = 1
    /\ upload_results' = EmptyItems
    /\ pc' = "upload_platform"
    /\ UNCHANGED << caller, attempt, retry >>
    /\ UNCHANGED pipelineVars
    /\ UNCHANGED configVars
    /\ UNCHANGED mainVars
    /\ UNCHANGED localVars
    /\ UNCHANGED technicianVars
    /\ UNCHANGED schedulerVars
    /\ UNCHANGED startupVars
    /\ UNCHANGED filesystemVars
    /\ UNCHANGED generatorVars

\* ------------------------------------------------------------ _retry_upload
\* mutant of BackoffDelay: the exponent counted from 1
BackoffDelayFromOne(delay, n) == delay * (2 ^ (n + 1))

\* base_delay * (2 ** attempt), attempt being the 0-indexed attempt
\* that has just failed
BackoffDelay(delay, n) == delay * (2 ^ n)

\* mutant of HasAttempt: range(max_retries + 1)
HasAttemptInclusive(n, budget) == n <= budget

\* `for attempt in range(max_retries)` has an iteration for this attempt
HasAttempt(n, budget) == n < budget

\* `if attempt == max_retries - 1: raise`
IsFinalAttempt(n, budget) == n = budget - 1

\* mutant of RaisedError: the first error is kept and raised at the end
FirstError(errors) == errors[1]

\* the exception a bare `raise` propagates: the one being handled, which is
\* the last of the errors seen so far (errors are numbered by invocation)
RaisedError(errors) == errors[Len(errors)]

\* mutant of Put: results is rebound to a new dict holding only this entry
PutAlone(d, k, v) == [x \in {k} |-> v]

\* dict assignment results[k] = v
Put(d, k, v) == [x \in DOMAIN d \cup {k} |-> IF x = k THEN v ELSE d[x]]

\* what upload_to_<platform> returns once _retry_upload has returned response:
\* upload_to_youtube calls response.get, which raises on None and makes the
\* except clause return None; the others return response as it is
PlatformReturn(p, response) ==
    IF p = "youtube" /\ IsNone(response) THEN NoneVal ELSE response

\* what upload_to_<platform> returns when _retry_upload raised:
\* `except Exception` logs and returns None
OnRetryRaised == NoneVal

\* upload_all_platforms, one iteration of `for platform in platforms` up to
\* the call of _retry_upload: an unknown platform gets None; a known one runs
\* upload_to_<platform>, whose steps before the request (OAuth service,
\* metadata, duration check) may raise, which its except clause turns to None
UploadPlatform ==
    /\ pc = "upload_platform"
    /\ idx <= Len(platforms)
    /\ LET p == platforms[idx] IN
       IF p \notin KnownPlatforms
       THEN /\ upload_results' = Put(upload_results, p, NoneVal)
            /\ idx' = idx + 1
            /\ UNCHANGED << pc, attempt, retry, max_retries, base_delay >>
       ELSE \E pre \in { "ok", "raise" } :
            IF pre = "raise"
            THEN /\ upload_results' = Put(upload_results, p, NoneVal)
                 /\ idx' = idx + 1
                 /\ retry' = [retry EXCEPT ![p] = FreshRetry]
                 /\ UNCHANGED << pc, attempt, max_retries, base_delay >>
            ELSE \* _retry_upload is entered and reads its configuration
                 \E m \in 0..MaxRetries, d \in 1..MaxBaseDelay :
                 /\ max_retries' = m
                 /\ base_delay' = d
                 /\ attempt' = 0
                 /\ retry' = [retry EXCEPT ![p] =
                        [FreshRetry EXCEPT !.max_retries = m,
                                           !.base_delay = d]]
                 /\ pc' = "retry_upload"
                 /\ UNCHANGED << upload_results, idx >>
    /\ UNCHANGED << caller, calls, platforms >>
    /\ UNCHANGED pipelineVars
    /\ UNCHANGED mainVars
    /\ UNCHANGED localVars
    /\ UNCHANGED technicianVars
    /\ UNCHANGED schedulerVars
    /\ UNCHANGED startupVars
    /\ UNCHANGED filesystemVars
    /\ UNCHANGED generatorVars

\* _retry_upload, one iteration of its loop (or the fall off its end), and,
\* when it returns or raises, the rest of upload_to_<platform>
RetryUpload ==
    /\ pc = "retry_upload"
    /\ LET p == platforms[idx]
           r == retry[p]
       IN
       IF HasAttempt(attempt, max_retries)
       THEN \E o \in FuncOutcomes(p) :
            LET n == r.invocations + 1 IN
            IF o = "ok"
            THEN \* return func(*args, **kwargs)
                 /\ retry' = [retry EXCEPT ![p] =
                        [r EXCEPT !.invocations = n, !.outcome = "returned",
                                  !.result = Response(p)]]
                 /\ upload_results' =
                        Put(upload_results, p, PlatformReturn(p, Response(p)))
                 /\ idx' = idx + 1
                 /\ pc' = "upload_platform"
                 /\ UNCHANGED attempt
            ELSE IF IsFinalAttempt(attempt, max_retries)
            THEN \* raise
                 /\ retry' = [retry EXCEPT ![p] =
                        [r EXCEPT !.invocations = n, !.outcome = "raised",
                                  !.errors = Append(@, n),
                                  !.raised_error =
                                      RaisedError(Append(r.errors, n))]]
                 /\ upload_results' = Put(upload_results, p, OnRetryRaised)
                 /\ idx' = idx + 1
                 /\ pc' = "upload_platform"
                 /\ UNCHANGED attempt
            ELSE \* logger.warning, time.sleep(delay), next attempt
                 /\ retry' = [retry EXCEPT ![p] =
                        [r EXCEPT !.invocations = n,
                                  !.errors = Append(@, n),
                                  !.warnings = Append(@, n),
                                  !.sleeps = Append(@,
                                      BackoffDelay(base_delay, attempt))]]
                 /\ attempt' = attempt + 1
                 /\ UNCHANGED << upload_results, idx, pc >>
       ELSE \* the loop ended without a return: the function returns None
            /\ retry' = [retry EXCEPT ![p] =
                   [r EXCEPT !.outcome = "returned", !.result = NoneVal]]
            /\ upload_results' =
                   Put(upload_results, p, PlatformReturn(p, NoneVal))
            /\ idx' = idx + 1
            /\ pc' = "upload_platform"
            /\ UNCHANGED attempt
    /\ UNCHANGED << caller, calls, platforms >>
    /\ UNCHANGED pipelineVars
    /\ UNCHANGED configVars
    /\ UNCHANGED mainVars
    /\ UNCHANGED localVars
    /\ UNCHANGED technicianVars
    /\ UNCHANGED schedulerVars
    /\ UNCHANGED startupVars
    /\ UNCHANGED filesystemVars
    /\ UNCHANGED generatorVars

\* upload_all_platforms returns results to a direct caller
UploadAllPlatformsReturn ==
    /\ pc = "upload_platform"
    /\ idx > Len(platforms)
    /\ caller = "direct"
    /\ pc' = "done"
    /\ UNCHANGED << caller, calls >>
    /\ UNCHANGED uploaderVars
    /\ UNCHANGED pipelineVars
    /\ UNCHANGED configVars
    /\ UNCHANGED mainVars
    /\ UNCHANGED localVars
    /\ UNCHANGED technicianVars
    /\ UNCHANGED schedulerVars
    /\ UNCHANGED startupVars
    /\ UNCHANGED filesystemVars
    /\ UNCHANGED generatorVars

\* upload_all_platforms returns results to run_pipeline_stage("upload"), and
\* run_full_pipeline records the stage and sets results["success"] = True
UploadStageComplete ==
    /\ pc = "upload_platform"
    /\ idx > Len(platforms)
    /\ caller = "pipeline"
    /\ LET r == run_pipeline_stage("upload",
                   [kind |-> "return", value |-> DictVal(upload_results)])
       IN
       IF r.kind = "raise"
       THEN /\ results' = OnPipelineError(results, r.message)
            /\ pc' = OnStageException
       ELSE /\ results' = [results EXCEPT
                   !.stages = Append(@, StageEntry("upload", r.value)),
                   !.success = TRUE]
            /\ pc' = "finally"
    /\ UNCHANGED << caller, calls, end_time_sets, returned, raised >>
    /\ UNCHANGED uploaderVars
    /\ UNCHANGED configVars
    /\ UNCHANGED mainVars
    /\ UNCHANGED localVars
    /\ UNCHANGED technicianVars
    /\ UNCHANGED schedulerVars
    /\ UNCHANGED startupVars
    /\ UNCHANGED filesystemVars
    /\ UNCHANGED generatorVars

\* --------------------------------------- the except and finally clauses
\* what a diagnostics or content-manager call can do; its return value is
\* never looked at
FinalizationOutcomes == { "return", "return_falsy", "raise" }

\* mutant of AfterDiagnosticsCall: each diagnostics call has a try of its
\* own, so the next call is made whatever the first one did
AfterDiagnosticsCallResumed(o, next) == next

\* the try around the diagnostics of the except clause: `except Exception as
\* diag_error` logs, and control continues at the finally clause
AfterDiagnosticsCall(o, next) == IF o = "raise" THEN "finally" ELSE next

\* mutant of AfterMaintenanceCall: no except clause, the exception leaves
\* the function
AfterMaintenanceCallUncaught(o, next) ==
    IF o = "raise" THEN "raise_to_caller" ELSE next

\* the try inside the finally clause: `except Exception as e` logs, and
\* control continues at `return results`
AfterMaintenanceCall(o, next) == IF o = "raise" THEN "return" ELSE next

\* mutant of OnFinalizationError: the handler stores str(e) in the report,
\* as the except clause of the stages does
OnFinalizationErrorStored(res) ==
    [res EXCEPT !.error = StrVal(CollaboratorError)]

\* `except Exception as diag_error` and `except Exception as e` of the two
\* inner try blocks: the handler logs the exception and touches nothing
OnFinalizationError(res) == res

\* a call made by the except or the finally clause
FinalizationCall(at, fn, to) ==
    /\ pc = at
    /\ \E o \in FinalizationOutcomes :
        /\ calls' = Append(calls, [fn |-> fn, outcome |-> o,
                                   args |-> << >>])
        /\ results' = IF o = "raise" THEN OnFinalizationError(results)
                       ELSE results
        /\ pc' = to[o]
    /\ UNCHANGED << caller, end_time_sets, returned, raised >>
    /\ UNCHANGED uploaderVars
    /\ UNCHANGED configVars
    /\ UNCHANGED mainVars
    /\ UNCHANGED localVars
    /\ UNCHANGED technicianVars
    /\ UNCHANGED schedulerVars
    /\ UNCHANGED startupVars
    /\ UNCHANGED filesystemVars
    /\ UNCHANGED generatorVars

\* except clause: modules["technician"].analyze_logs()
ExceptAnalyzeLogs ==
    FinalizationCall("except_analyze_logs", "analyze_logs",
        [o \in FinalizationOutcomes |->
            AfterDiagnosticsCall(o, "except_generate_diagnostic_report")])

\* except clause: modules["technician"].generate_diagnostic_report()
ExceptGenerateDiagnosticReport ==
    FinalizationCall("except_generate_diagnostic_report",
        "generate_diagnostic_report",
        [o \in FinalizationOutcomes |-> AfterDiagnosticsCall(o, "finally")])

\* finally clause: results["end_time"] = datetime.now().isoformat()
Finally ==
    /\ pc = "finally"
    /\ results' = [results EXCEPT !.end_time = StrVal("end")]
    /\ end_time_sets' = end_time_sets + 1
    /\ pc' = "load_past_upload_data"
    /\ UNCHANGED << caller, calls, returned, raised >>
    /\ UNCHANGED uploaderVars
    /\ UNCHANGED configVars
    /\ UNCHANGED mainVars
    /\ UNCHANGED localVars
    /\ UNCHANGED technicianVars
    /\ UNCHANGED schedulerVars
    /\ UNCHANGED startupVars
    /\ UNCHANGED filesystemVars
    /\ UNCHANGED generatorVars

LoadPastUploadData ==
    FinalizationCall("load_past_upload_data", "load_past_upload_data",
        [o \in FinalizationOutcomes |->
            AfterMaintenanceCall(o, "update_performance_metrics")])

UpdatePerformanceMetrics ==
    FinalizationCall("update_performance_metrics",
        "update_performance_metrics",
        [o \in FinalizationOutcomes |->
            AfterMaintenanceCall(o, "analyze_logs")])

AnalyzeLogs ==
    FinalizationCall("analyze_logs", "analyze_logs",
        [o \in FinalizationOutcomes |->
            AfterMaintenanceCall(o, "generate_diagnostic_report")])

GenerateDiagnosticReport ==
    FinalizationCall("generate_diagnostic_report",
        "generate_diagnostic_report",
        [o \in FinalizationOutcomes |-> AfterMaintenanceCall(o, "return")])

\* control leaves run_full_pipeline: by `return results` at the end of the
\* finally clause, or by an exception that no clause caught
Return ==
    /\ pc \in { "return", "raise_to_caller" }
    /\ IF pc = "return"
       THEN returned' = returned + 1 /\ UNCHANGED raised
       ELSE raised' = TRUE /\ UNCHANGED returned
    /\ pc' = "done"
    /\ UNCHANGED << caller, calls, results, end_time_sets >>
    /\ UNCHANGED uploaderVars
    /\ UNCHANGED configVars
    /\ UNCHANGED mainVars
    /\ UNCHANGED localVars
    /\ UNCHANGED technicianVars
    /\ UNCHANGED schedulerVars
    /\ UNCHANGED startupVars
    /\ UNCHANGED filesystemVars
    /\ UNCHANGED generatorVars

\* main(), single-run mode: sys.exit(0 if results["success"] else 1)
ExitStatus(res) == IF res.success THEN 0 ELSE 1

\* main(), single-run mode, after run_full_pipeline came back: print_summary
\* and sys.exit; an exception that left run_full_pipeline reaches the
\* `except Exception` of main, which exits with 1
SingleRunExit ==
    /\ pc = "done"
    /\ caller = "pipeline"
    /\ IsNone(exit_code)
    /\ exit_code' = IF raised THEN [type |-> "int", value |-> 1]
                    ELSE [type |-> "int", value |-> ExitStatus(results)]
    /\ UNCHANGED << pc, caller, calls >>
    /\ UNCHANGED pipelineVars
    /\ UNCHANGED uploaderVars
    /\ UNCHANGED configVars
    /\ UNCHANGED localVars
    /\ UNCHANGED technicianVars
    /\ UNCHANGED schedulerVars
    /\ UNCHANGED startupVars
    /\ UNCHANGED filesystemVars
    /\ UNCHANGED generatorVars

Next ==
    \/ CallRunFullPipeline
    \/ CallUploadAllPlatforms
    \/ Ingestion
    \/ ScriptGeneration
    \/ Animation
    \/ VoiceGeneration
    \/ VideoComposition
    \/ QualityControl
    \/ Upload
    \/ UploadPlatform
    \/ RetryUpload
    \/ UploadAllPlatformsReturn
    \/ UploadStageComplete
    \/ ExceptAnalyzeLogs
    \/ ExceptGenerateDiagnosticReport
    \/ Finally
    \/ LoadPastUploadData
    \/ UpdatePerformanceMetrics
    \/ AnalyzeLogs
    \/ GenerateDiagnosticReport
    \/ Return
    \/ SingleRunExit

Spec == Init /\ [][Next]_vars

\* ===================================================== the TechnicianAgent
\* ---------------------------------------------- technician_agent/config.py
\* config.expected_timings.get(module, 0), in seconds
expected_timings(module) ==
    CASE module = "ingestion" -> 30
      [] module = "script_generation" -> 60
      [] module = "animation" -> 120
      [] module = "voice_generation" -> 30
      [] module = "video_composition" -> 60
      [] OTHER -> 0

\* config.tool_alternatives.get(module, [])
tool_alternatives(module) ==
    CASE module = "pytesseract" ->
             << "google-cloud-vision", "easyocr", "paddleocr" >>
      [] module = "ffmpeg" -> << "opencv", "moviepy" >>
      [] module = "manim" -> << "blender", "after-effects-api" >>
      [] module = "whisper" -> << "google-speech-to-text", "azure-speech" >>
      [] OTHER -> << >>

\* the keys of config.expected_timings in the order groupby("module") yields
\* its groups (sorted)
BenchmarkedModules ==
    << "animation", "ingestion", "script_generation", "video_composition",
       "voice_generation" >>

\* ------------------------------------------------- utils/logging_utils.py
FloatVal(x) == [type |-> "float", value |-> x]

\* what json.loads makes of the text after the last '|' of a line: it is not
\* JSON, it is JSON but a number, or it is a JSON object
JsonInvalid == [kind |-> "invalid"]
JsonNumber == [kind |-> "number"]
JsonObject(obj) == [kind |-> "object", obj |-> obj]

\* the two dicts of StructuredMessage(message, operation=..., status=...,
\* **metadata) made one
Merge(a, b) ==
    [k \in DOMAIN a \cup DOMAIN b |-> IF k \in DOMAIN b THEN b[k] ELSE a[k]]

\* which of the texts '"level": "ERROR"' and '"level": "WARNING"' the
\* json.dumps of kwargs contains
LevelText(kwargs) ==
    IF "level" \in DOMAIN kwargs /\ kwargs["level"] = StrVal("ERROR")
    THEN "ERROR"
    ELSE IF "level" \in DOMAIN kwargs /\ kwargs["level"] = StrVal("WARNING")
         THEN "WARNING"
         ELSE "none"

\* a line of the form `asctime | levelname | name | message | {json}`: the
\* formatter of setup_logging applied to str(StructuredMessage): the level
\* goes into the second column, the kwargs into the JSON text
StructuredLine(levelname, kwargs) ==
    [ levelname |-> levelname,
      text_level |-> LevelText(kwargs),
      text_duration |-> "duration_sec" \in DOMAIN kwargs,
      tail |-> JsonObject(kwargs) ]

\* a line of the form `asctime | levelname | name | message`, written by
\* logger.info / logger.warning / logger.error with a plain string
PlainLine(levelname) ==
    [ levelname |-> levelname,
      text_level |-> "none",
      text_duration |-> FALSE,
      tail |-> JsonInvalid ]

\* log_operation(logger, operation, status, metadata, level)
log_operation(operation, status, metadata, level) ==
    StructuredLine(level,
        Merge([operation |-> StrVal(operation), status |-> StrVal(status)],
              metadata))

\* ---- the lines the components of the repository persist
\* script_gen.py generate_script: log_operation(..., "completed",
\* {..., "duration_sec": ...}) after a run of 100 seconds
PersistedDuration ==
    log_operation("generate_script", "completed",
                  [duration_sec |-> FloatVal(100)], "INFO")

\* upload.py upload_to_youtube: log_operation(..., "failed", {"error": ...},
\* level="ERROR")
PersistedError ==
    log_operation("upload_to_youtube", "failed",
                  [error |-> StrVal("upload failed")], "ERROR")

\* upload.py _retry_upload: logger.warning(f"Upload attempt ... failed")
PersistedWarning == PlainLine("WARNING")

PersistedLines == { PersistedDuration, PersistedError, PersistedWarning }

\* ---- lines in the layout _parse_log_file looks for: the level and the source
\* name are keys of the JSON text
JsonError ==
    StructuredLine("ERROR",
        [level |-> StrVal("ERROR"), name |-> StrVal("script_generation"),
         error |-> StrVal("generation failed")])

JsonWarning ==
    StructuredLine("WARNING",
        [level |-> StrVal("WARNING"), name |-> StrVal("script_generation")])

\* a duration record that names its stage
Sample(seconds) ==
    StructuredLine("INFO",
        [name |-> StrVal("script_generation"),
         duration_sec |-> FloatVal(seconds)])

\* ---- malformed lines
\* the level text is there but the line was cut before its JSON ended
PartialErrorLine ==
    [ levelname |-> "ERROR", text_level |-> "ERROR",
      text_duration |-> FALSE, tail |-> JsonInvalid ]

\* the text after the last '|' is valid JSON but a number
NumberErrorLine ==
    [ levelname |-> "ERROR", text_level |-> "ERROR",
      text_duration |-> FALSE, tail |-> JsonNumber ]

\* a duration record whose duration_sec is a string
TextSample ==
    StructuredLine("INFO",
        [name |-> StrVal("script_generation"),
         duration_sec |-> StrVal("fast")])

MalformedLines == { PartialErrorLine, NumberErrorLine, TextSample }

\* what another component may append to a log file
WrittenLines ==
    PersistedLines \cup MalformedLines
        \cup { JsonError, JsonWarning, Sample(80), Sample(100), Sample(140) }

\* ---- QC report files
\* load_json_file returns None for it
UnparseableReport == [kind |-> "unparseable"]
QCReport(status, score) ==
    [kind |-> "report", status |-> status, score |-> score]

WrittenReports ==
    { UnparseableReport, QCReport("needs_revision", 2),
      QCReport("needs_revision", 4), QCReport("approved", 4) }

\* ---- what importing the required modules and `pip check` do
DependencyStates == { "installed", "missing", "conflict", "import_raises" }

\* ------------------------------------------------------- _parse_log_file
Unknown == StrVal("unknown")

\* dict.get(key, default)
Get(obj, key, default) == IF key \in DOMAIN obj THEN obj[key] ELSE default

\* line.strip(): the text of the line
LineText(line) == [type |-> "line", value |-> line]

NoLogData == [errors |-> << >>, warnings |-> << >>, performance |-> << >>]

\* the first half of the loop body: the tests for the two level texts.
\* json.JSONDecodeError is handled in place; error_data.get on a value that
\* is not a dict raises AttributeError, which is not
LevelBranch(line, log_data) ==
    IF line.text_level = "ERROR"
    THEN CASE line.tail.kind = "object" ->
                  [ raised |-> FALSE,
                    log_data |-> [log_data EXCEPT !.errors = Append(@,
                        [ module |-> Get(line.tail.obj, "name", Unknown),
                          message |-> Get(line.tail.obj, "error", Unknown),
                          timestamp |->
                              Get(line.tail.obj, "timestamp", StrVal("")) ])] ]
           [] line.tail.kind = "invalid" ->
                  [ raised |-> FALSE,
                    log_data |-> [log_data EXCEPT !.errors = Append(@,
                        [ module |-> Unknown,
                          message |-> LineText(line),
                          timestamp |-> StrVal("") ])] ]
           [] OTHER -> [ raised |-> TRUE, log_data |-> log_data ]
    ELSE IF line.text_level = "WARNING"
         THEN [ raised |-> FALSE,
                log_data |-> [log_data EXCEPT
                                 !.warnings = Append(@, LineText(line))] ]
         ELSE [ raised |-> FALSE, log_data |-> log_data ]

\* the second half of the loop body: `if "duration_sec" in line`.
\* `"duration_sec" in perf_data` on a number raises TypeError
DurationBranch(line, log_data) ==
    IF ~line.text_duration
    THEN [ raised |-> FALSE, log_data |-> log_data ]
    ELSE CASE line.tail.kind = "invalid" ->
                  [ raised |-> FALSE, log_data |-> log_data ]
           [] line.tail.kind = "object" ->
                  [ raised |-> FALSE,
                    log_data |->
                        IF "duration_sec" \in DOMAIN line.tail.obj
                        THEN [log_data EXCEPT !.performance = Append(@,
                            [ module |-> Get(line.tail.obj, "name", Unknown),
                              operation |->
                                  Get(line.tail.obj, "operation", Unknown),
                              duration |-> Get(line.tail.obj, "duration_sec",
                                               FloatVal(0)) ])]
                        ELSE log_data ]
           [] OTHER -> [ raised |-> TRUE, log_data |-> log_data ]

\* the loop over the lines from line i on; `except Exception` around the
\* loop ends it at the line that raised, and log_data is returned as it is
RECURSIVE ParseLines(_, _, _)
ParseLines(lines, i, log_data) ==
    IF i > Len(lines)
    THEN [ raised |-> FALSE, log_data |-> log_data ]
    ELSE LET a == LevelBranch(lines[i], log_data) IN
         IF a.raised THEN a
         ELSE LET b == DurationBranch(lines[i], a.log_data) IN
              IF b.raised THEN b ELSE ParseLines(lines, i + 1, b.log_data)

parse_log_file(lines) == ParseLines(lines, 1, NoLogData)

\* analyze_logs: the loop over log_directory.glob("*.log") from file f on
RECURSIVE ParseFiles(_, _, _)
ParseFiles(dir, f, all_log_data) ==
    IF f > Len(LogFileOrder) THEN all_log_data
    ELSE LET log_data == parse_log_file(dir[LogFileOrder[f]]).log_data IN
         ParseFiles(dir, f + 1,
             [ errors |-> all_log_data.errors \o log_data.errors,
               warnings |-> all_log_data.warnings \o log_data.warnings,
               performance |->
                   all_log_data.performance \o log_data.performance ])

\* the files whose parse ended in the `except Exception` handler
FilesThatRaised(dir) ==
    { f \in DOMAIN LogFileOrder : parse_log_file(dir[LogFileOrder[f]]).raised }

\* --------------------------------------------------- _analyze_performance
SamplesOf(performance, module) ==
    SelectSeq(performance, LAMBDA s : s.module = StrVal(module))

RECURSIVE Total(_)
Total(samples) ==
    IF samples = << >> THEN 0
    ELSE Head(samples).duration.value + Total(Tail(samples))

\* `expected and avg_time > expected * 1.5`, avg_time being total / count
Bottleneck(total, count, expected) ==
    expected # 0 /\ 2 * total > 3 * expected * count

\* the issue recorded for a module; actual_time is total / count
PerformanceIssue(module, samples) ==
    [ module |-> module, total |-> Total(samples), count |-> Len(samples),
      expected_time |-> expected_timings(module),
      issue |-> "performance_bottleneck" ]

\* mean() of a column that holds a string raises
analyze_performance(performance) ==
    IF \E i \in DOMAIN performance : performance[i].duration.type # "float"
    THEN [ raised |-> TRUE, issues |-> << >> ]
    ELSE [ raised |-> FALSE,
           issues |->
               LET flagged ==
                       SelectSeq(BenchmarkedModules, LAMBDA m :
                           /\ SamplesOf(performance, m) # << >>
                           /\ Bottleneck(Total(SamplesOf(performance, m)),
                                         Len(SamplesOf(performance, m)),
                                         expected_timings(m)))
               IN [ i \in DOMAIN flagged |->
                      PerformanceIssue(flagged[i],
                                       SamplesOf(performance, flagged[i])) ] ]

\* ----------------------------------------------------- _check_dependencies
\* importlib.import_module raising anything but ImportError is not handled
check_dependencies(state) ==
    CASE state = "installed" -> [ raised |-> FALSE, issues |-> << >> ]
      [] state = "missing" ->
             [ raised |-> FALSE,
               issues |-> << [ module |-> "whisper", issue |-> "missing",
                               alternatives |-> tool_alternatives("whisper") ] >> ]
      [] state = "conflict" ->
             [ raised |-> FALSE,
               issues |-> << [ module |-> "pip_conflict",
                               issue |-> "dependency_conflict",
                               alternatives |-> << >> ] >> ]
      [] OTHER -> [ raised |-> TRUE, issues |-> << >> ]

\* --------------------------------------------------------- _check_hardware
\* config.hardware_requirements["gpu_recommended"] is True: no issue
check_hardware == << >>

\* ------------------------------------------- analyze_logs: the QC reports
\* report.get on None raises, and `except Exception` skips the file
QCIssueOf(dir, i) ==
    [ source |-> i, issues |-> 0, score |-> dir[i].score ]

RECURSIVE QCIssues(_, _)
QCIssues(dir, i) ==
    IF i > Len(dir) THEN << >>
    ELSE IF dir[i].kind = "report" /\ dir[i].status = "needs_revision"
         THEN << QCIssueOf(dir, i) >> \o QCIssues(dir, i + 1)
         ELSE QCIssues(dir, i + 1)

\* ------------------------------------------------------------ analyze_logs
\* mutant of Assign: the new items are added to those the category holds
Extend(old, new) == old \o new

\* self.findings[category] = value
Assign(old, new) == new

SetCategory(f, k, v) ==
    [ x \in DOMAIN f \cup {k} |->
        IF x = k THEN Assign(IF k \in DOMAIN f THEN f[k] ELSE << >>, v)
        ELSE f[x] ]

IntVal(n) == [type |-> "int", value |-> n]

\* the lines analyze_logs writes through its own logger
StartedLine ==
    log_operation("analyze_logs", "started",
        [log_dir |-> StrVal("logs"), qc_dir |-> StrVal("qc_reports")], "INFO")

CompletedLine(f) ==
    log_operation("analyze_logs", "completed",
        [ errors_found |-> IntVal(Len(f["errors"])),
          warnings_found |-> IntVal(Len(f["warnings"])),
          performance_issues |-> IntVal(Len(f["performance_issues"])),
          duration_sec |-> FloatVal(1) ], "INFO")

FailedLine ==
    log_operation("analyze_logs", "failed",
        [error |-> StrVal("analysis error")], "ERROR")

\* logger.error("Failed to parse log file ...") for each file in files, and
\* logger.warning("Failed to process QC report ...") for each report that
\* load_json_file could not load
RECURSIVE Repeat(_, _)
Repeat(line, n) == IF n = 0 THEN << >> ELSE << line >> \o Repeat(line, n - 1)

\* the body of the try of analyze_logs: the assignments to self.findings in
\* their order, ended by the first call that raises; assigned names the
\* categories that were written
analyze_logs(f, dir, reports, state) ==
    LET all_log_data == ParseFiles(dir, 1, NoLogData)
        performance == analyze_performance(all_log_data.performance)
        dependency == check_dependencies(state)
        f1 == SetCategory(SetCategory(f, "errors", all_log_data.errors),
                          "warnings", all_log_data.warnings)
        f2 == SetCategory(f1, "performance_issues", performance.issues)
        f3 == SetCategory(
                  SetCategory(
                      SetCategory(f2, "dependency_issues", dependency.issues),
                      "qc_issues", QCIssues(reports, 1)),
                  "hardware_issues", check_hardware)
    IN  IF performance.raised
        THEN [ returned |-> "empty", findings |-> f1,
               assigned |-> { "errors", "warnings" } ]
        ELSE IF dependency.raised
             THEN [ returned |-> "empty", findings |-> f2,
                    assigned |-> { "errors", "warnings",
                                   "performance_issues" } ]
             ELSE [ returned |-> "findings", findings |-> f3,
                    assigned |-> DOMAIN f3 ]

\* everything but the technician's state and its directories
runVars == << pc, caller, calls, pipelineVars, uploaderVars, configVars,
              mainVars, localVars >>

\* one call of TechnicianAgent.analyze_logs()
TechnicianAnalyzeLogs ==
    /\ pc = "technician"
    /\ analyze_calls < MaxAnalyzeCalls
    /\ LET started ==
               [log_dir EXCEPT !["technician_agent"] =
                   (@ \o << StartedLine >>)
                      \o Repeat(PlainLine("ERROR"),
                                Cardinality(FilesThatRaised(log_dir)))]
           r == analyze_logs(findings, started, qc_dir, dependencies)
           unparseable ==
               { i \in DOMAIN qc_dir : qc_dir[i].kind = "unparseable" }
       IN  /\ findings' = r.findings
           /\ findings_call' =
                  [ k \in DOMAIN r.findings |->
                      IF k \in r.assigned THEN analyze_calls + 1
                      ELSE findings_call[k] ]
           /\ analyze_result' = r.returned
           /\ log_dir' =
                  [started EXCEPT !["technician_agent"] =
                      (@ \o Repeat(PlainLine("WARNING"),
                                   Cardinality(unparseable)))
                         \o << IF r.returned = "findings"
                               THEN CompletedLine(r.findings)
                               ELSE FailedLine >>]
    /\ analyze_calls' = analyze_calls + 1
    /\ repeated' = quiet
    /\ quiet' = TRUE
    /\ UNCHANGED << qc_dir, dependencies >>
    /\ UNCHANGED reportVars
    /\ UNCHANGED runVars
    /\ UNCHANGED schedulerVars
    /\ UNCHANGED startupVars
    /\ UNCHANGED filesystemVars
    /\ UNCHANGED generatorVars

\* ---------------------------------------------------- suggest_improvements
\* mutant of CriticalSlowdown: at least twice the benchmark
CriticalSlowdownInclusive(issue) ==
    issue.total >= 2 * issue.expected_time * issue.count

\* issue["actual_time"] > issue["expected_time"] * 2
CriticalSlowdown(issue) ==
    issue.total > 2 * issue.expected_time * issue.count

PerformancePriority(issue) ==
    IF CriticalSlowdown(issue) THEN "critical"
    ELSE IF tool_alternatives(issue.module) # << >> THEN "recommended"
         ELSE "optional"

\* issue["score"] < 3.0
LowScore(issue) == issue.score < 3

DependencySuggestion(issue) ==
    [ category |-> "dependency_issues", subject |-> issue.module,
      action |-> IF issue.issue = "missing" THEN "install"
                 ELSE "resolve_conflict",
      alternatives |-> IF issue.issue = "missing" THEN issue.alternatives
                       ELSE << >> ]

PerformanceSuggestion(issue) ==
    [ category |-> "performance_issues", subject |-> issue.module,
      action |-> "optimize",
      alternatives |-> tool_alternatives(issue.module) ]

QCSuggestion(issue) ==
    [ category |-> "qc_issues", subject |-> issue.source,
      action |-> "review", alternatives |-> << >> ]

DependencySuggestions(issues) ==
    [ i \in DOMAIN issues |-> DependencySuggestion(issues[i]) ]

PerformanceSuggestions(issues) ==
    [ i \in DOMAIN issues |-> PerformanceSuggestion(issues[i]) ]

QCSuggestions(issues) == [ i \in DOMAIN issues |-> QCSuggestion(issues[i]) ]

\* the performance issues that go to one priority list
WithPriority(issues, priority) ==
    SelectSeq(issues, LAMBDA i : PerformancePriority(i) = priority)

\* the three loops of suggest_improvements; self.findings["qc_issues"]
\* raises KeyError when the key was never assigned
suggest_improvements(f) ==
    IF "qc_issues" \notin DOMAIN f
    THEN [ raised |-> TRUE, suggestions |-> NoneVal ]
    ELSE [ raised |-> FALSE,
           suggestions |->
             [ critical |->
                   DependencySuggestions(f["dependency_issues"])
                   \o PerformanceSuggestions(
                          WithPriority(f["performance_issues"], "critical"))
                   \o QCSuggestions(SelectSeq(f["qc_issues"], LowScore)),
               recommended |->
                   PerformanceSuggestions(
                       WithPriority(f["performance_issues"], "recommended")),
               optional |->
                   PerformanceSuggestions(
                       WithPriority(f["performance_issues"], "optional")) ] ]

\* ---------------------------------------------- generate_diagnostic_report
\* the two artifacts of generate_diagnostic_report
Artifacts == { "diagnostic.log", "upgrade_plan.md" }

\* open(filepath, 'w') raises for a file that cannot be written;
\* save_json_file and save_text_file catch the exception and return False
CanWrite(name) == name \notin unwritable

\* the file after save_json_file or save_text_file: the new content, or
\* what was there when the file could not be opened
Saved(file, content, ok) ==
    IF ok THEN [type |-> "file", content |-> content] ELSE file

\* the entry of the write history
WriteAttempt(name, content, ok) ==
    [file |-> name, content |-> content, ok |-> ok]

\* mutant of ContinuesAfterSave: the call gives up when the dump could
\* not be saved
ContinuesIfSaved(ok) == ok

\* generate_diagnostic_report does not look at what save_json_file returned
ContinuesAfterSave(ok) == TRUE

\* save_json_file(self.findings, log_path), then _generate_markdown_report,
\* whose first statement is the call of suggest_improvements, then
\* save_text_file
TechnicianGenerateDiagnosticReport ==
    /\ pc = "technician"
    /\ LET s == suggest_improvements(findings)
           dump_ok == CanWrite("diagnostic.log")
           plan_ok == CanWrite("upgrade_plan.md")
           dump == WriteAttempt("diagnostic.log", findings, dump_ok)
       IN
       /\ dump_file' = Saved(dump_file, findings, dump_ok)
       /\ IF ~ContinuesAfterSave(dump_ok)
          THEN /\ report_outcome' = "returned"
               /\ writes' = << dump >>
               /\ UNCHANGED plan_file
          ELSE IF s.raised
          THEN /\ report_outcome' = "raised"
               /\ writes' = << dump >>
               /\ UNCHANGED plan_file
          ELSE /\ report_outcome' = "returned"
               /\ writes' = << dump, WriteAttempt("upgrade_plan.md",
                                                  s.suggestions, plan_ok) >>
               /\ plan_file' = Saved(plan_file, s.suggestions, plan_ok)
    /\ UNCHANGED directoryVars
    /\ UNCHANGED agentVars
    /\ UNCHANGED runVars
    /\ UNCHANGED schedulerVars
    /\ UNCHANGED startupVars
    /\ UNCHANGED filesystemVars
    /\ UNCHANGED generatorVars

\* ------------------------------------------- the writers of the directories
ForeignLogFiles == { "script_generator", "uploader" }

RECURSIVE LinesWritten(_, _)
LinesWritten(dir, files) ==
    IF files = {} THEN 0
    ELSE LET f == CHOOSE x \in files : TRUE IN
         Len(dir[f]) + LinesWritten(dir, files \ {f})

\* a component of the pipeline, or anybody else, appends a line to a log file
WriteLogLine ==
    /\ pc = "technician"
    /\ LinesWritten(log_dir, ForeignLogFiles) < MaxLogLines
    /\ \E f \in ForeignLogFiles, line \in WrittenLines :
           log_dir' = [log_dir EXCEPT ![f] = Append(@, line)]
    /\ quiet' = FALSE
    /\ UNCHANGED << qc_dir, dependencies >>
    /\ UNCHANGED << findings, findings_call, analyze_calls, analyze_result,
                    repeated >>
    /\ UNCHANGED reportVars
    /\ UNCHANGED runVars
    /\ UNCHANGED schedulerVars
    /\ UNCHANGED startupVars
    /\ UNCHANGED filesystemVars
    /\ UNCHANGED generatorVars

\* quality control, or anybody else, adds a file to the QC report directory
WriteQCReport ==
    /\ pc = "technician"
    /\ Len(qc_dir) < MaxQCReports
    /\ \E report \in WrittenReports : qc_dir' = Append(qc_dir, report)
    /\ quiet' = FALSE
    /\ UNCHANGED << log_dir, dependencies >>
    /\ UNCHANGED << findings, findings_call, analyze_calls, analyze_result,
                    repeated >>
    /\ UNCHANGED reportVars
    /\ UNCHANGED runVars
    /\ UNCHANGED schedulerVars
    /\ UNCHANGED startupVars
    /\ UNCHANGED filesystemVars
    /\ UNCHANGED generatorVars

InitTechnician ==
    /\ pc = "technician"
    /\ NoGeneration
    /\ unwritable = {}
    /\ NoRun
    /\ ModulesInitialized
    /\ Constructed
    /\ log_dir = [f \in { LogFileOrder[i] : i \in DOMAIN LogFileOrder }
                     |-> << >>]
    /\ qc_dir = << >>
    /\ dependencies \in DependencyStates

NextTechnician ==
    \/ WriteLogLine
    \/ WriteQCReport
    \/ TechnicianAnalyzeLogs
    \/ TechnicianGenerateDiagnosticReport

SpecTechnician == InitTechnician /\ [][NextTechnician]_vars

\* the technician with every dependency installed, on a filesystem where
\* either artifact may be unwritable
InitArtifacts ==
    /\ pc = "technician"
    /\ NoRun
    /\ ModulesInitialized
    /\ Constructed
    /\ NoGeneration
    /\ log_dir = [f \in { LogFileOrder[i] : i \in DOMAIN LogFileOrder }
                     |-> << >>]
    /\ qc_dir = << >>
    /\ dependencies = "installed"
    /\ unwritable \in SUBSET Artifacts

SpecArtifacts == InitArtifacts /\ [][NextTechnician]_vars

\* ============================================ the generative collaborators
\* generate_script (LLM call) and generate_voiceover (TTS call) each wrap
\* their client call in a retry loop of their own.
Generators == { "generate_script", "generate_voiceover" }

\* what the LLM or TTS client does on one call: it returns data, returns
\* something empty, or raises
ClientOutcomes == { "data", "empty", "raise" }

\* the delay the loop sleeps after failed attempt number n (from 0)
GeneratorDelay(config, n) == config.retry_delay

\* one iteration of `for attempt in range(config.max_retries)`: the client
\* is called; data breaks out of the loop, an empty answer is followed by a
\* sleep, an exception leaves the loop for the except clause
GeneratorAttempt(g) ==
    /\ pc = "generator"
    /\ generator = g
    /\ gen_status = "loop"
    /\ client_calls < gen_config.max_retries
    /\ \E o \in ClientOutcomes :
        /\ client_calls' = client_calls + 1
        /\ slept' = IF o = "empty"
                    THEN Append(slept, GeneratorDelay(gen_config, client_calls))
                    ELSE slept
        /\ gen_status' = CASE o = "data" -> "returned"
                            [] o = "empty" -> "loop"
                            [] OTHER -> "returned_none"
    /\ UNCHANGED << generator, gen_config >>
    /\ UNCHANGED runVars
    /\ UNCHANGED schedulerVars
    /\ UNCHANGED startupVars
    /\ UNCHANGED technicianVars
    /\ UNCHANGED filesystemVars

GenerateScriptAttempt == GeneratorAttempt("generate_script")
GenerateVoiceoverAttempt == GeneratorAttempt("generate_voiceover")

\* the loop ran out of attempts with nothing in hand: RuntimeError, caught
\* by the function's own except clause, which returns None
GeneratorExhausted ==
    /\ pc = "generator"
    /\ gen_status = "loop"
    /\ client_calls >= gen_config.max_retries
    /\ gen_status' = "exhausted"
    /\ UNCHANGED << generator, gen_config, client_calls, slept >>
    /\ UNCHANGED runVars
    /\ UNCHANGED schedulerVars
    /\ UNCHANGED startupVars
    /\ UNCHANGED technicianVars
    /\ UNCHANGED filesystemVars

InitGenerators ==
    /\ pc = "generator"
    /\ NoRun
    /\ ModulesInitialized
    /\ Constructed
    /\ log_dir = [f \in { LogFileOrder[i] : i \in DOMAIN LogFileOrder }
                     |-> << >>]
    /\ qc_dir = << >>
    /\ dependencies = "installed"
    /\ unwritable = {}
    /\ generator \in Generators
    /\ gen_config \in [max_retries : 0..MaxRetries,
                       retry_delay : 1..MaxBaseDelay]
    /\ client_calls = 0
    /\ slept = << >>
    /\ gen_status = "loop"

NextGenerators ==
    \/ GenerateScriptAttempt
    \/ GenerateVoiceoverAttempt
    \/ GeneratorExhausted

SpecGenerators == InitGenerators /\ [][NextGenerators]_vars

\* ================================================================ main.py
\* The process from its first import to the single run or the scheduler.
MANDATORY_ENV_VARS == { "OPENAI_API_KEY", "ELEVENLABS_API_KEY",
                        "YOUTUBE_API_KEY" }

CommandLines == { "single", "schedule", "invalid" }

\* sys.exit(code), or the interpreter ending on an uncaught exception
Exit(code) ==
    /\ exit_code' = IntVal(code)
    /\ pc' = "exited"

\* mutant of OnConfigError: the failure is logged and main() goes on
OnConfigErrorLogged(next) == next

\* load_config's except clause: logger.error, then sys.exit(1)
OnConfigError(next) == "exit"

\* what stays as it is while the process starts
StartupFrame ==
    /\ UNCHANGED << caller, calls >>
    /\ UNCHANGED pipelineVars
    /\ UNCHANGED uploaderVars
    /\ UNCHANGED configVars
    /\ UNCHANGED localVars
    /\ UNCHANGED technicianVars
    /\ UNCHANGED generatorVars
    /\ UNCHANGED filesystemVars

\* main.py:10-12: initialize_env() exits with 1 when a mandatory variable
\* is missing, before anything else is imported
InitializeEnv ==
    /\ pc = "initialize_env"
    /\ IF env_missing # {}
       THEN Exit(1)
       ELSE pc' = "import_modules" /\ UNCHANGED exit_code
    /\ UNCHANGED startupVars
    /\ UNCHANGED schedulerVars
    /\ StartupFrame

\* main.py:15-23: importing the script generator loads the main
\* configuration with load_json_file, which returns None on failure; the
\* config class then subscripts None, and the uncaught TypeError ends the
\* interpreter with status 1
ImportModules ==
    /\ pc = "import_modules"
    /\ IF main_config = "unloadable"
       THEN /\ Exit(1)
            /\ config_loaded' = "failed"
       ELSE /\ pc' = "parse_arguments"
            /\ UNCHANGED << exit_code, config_loaded >>
    /\ UNCHANGED << env_missing, main_config, arguments >>
    /\ UNCHANGED schedulerVars
    /\ StartupFrame

\* somebody removes or damages the configuration file while main() starts
ConfigRemoved ==
    /\ pc \in { "parse_arguments", "load_config" }
    /\ main_config = "loadable"
    /\ main_config' = "unloadable"
    /\ UNCHANGED << pc, exit_code, env_missing, arguments, config_loaded >>
    /\ UNCHANGED schedulerVars
    /\ StartupFrame

\* parse_arguments: argparse exits with 2 on a bad command line
ParseArguments ==
    /\ pc = "parse_arguments"
    /\ IF arguments = "invalid"
       THEN Exit(2)
       ELSE pc' = "load_config" /\ UNCHANGED exit_code
    /\ UNCHANGED startupVars
    /\ UNCHANGED schedulerVars
    /\ StartupFrame

\* load_config: json.load of the file, sys.exit(1) on any exception
LoadConfig ==
    /\ pc = "load_config"
    /\ IF main_config = "unloadable"
       THEN /\ config_loaded' = "failed"
            /\ IF OnConfigError("initialize_modules") = "exit"
               THEN Exit(1)
               ELSE /\ pc' = OnConfigError("initialize_modules")
                    /\ UNCHANGED exit_code
       ELSE /\ config_loaded' = "yes"
            /\ pc' = "initialize_modules"
            /\ UNCHANGED exit_code
    /\ UNCHANGED << env_missing, main_config, arguments >>
    /\ UNCHANGED schedulerVars
    /\ StartupFrame

\* initialize_modules: the nine constructors; any exception is logged and
\* the process exits with 1. ContentManager.__init__ reads the CSV.
InitializeModules ==
    /\ pc = "initialize_modules"
    /\ \E constructed \in BOOLEAN :
        IF ~constructed
        THEN /\ Exit(1)
             /\ UNCHANGED schedulerVars
        ELSE /\ pc' = IF arguments = "schedule" THEN "start_scheduler"
                      ELSE "idle"
             /\ performance_data' = performance_csv
             /\ youtube_service' = NoneVal
             /\ UNCHANGED << exit_code, performance_csv, run_starts >>
    /\ UNCHANGED startupVars
    /\ StartupFrame

\* main.py:274-299: the scheduler is imported and started; ImportError and
\* any other exception end the process with 1
StartScheduler ==
    /\ pc = "start_scheduler"
    /\ \E started \in BOOLEAN :
        IF started
        THEN pc' = "scheduler" /\ UNCHANGED exit_code
        ELSE Exit(1)
    /\ UNCHANGED startupVars
    /\ UNCHANGED schedulerVars
    /\ StartupFrame

\* the cached service object of Uploader._get_youtube_service
Service == [type |-> "service"]

\* what the modules hold, and what the disk holds, when a run starts
ModuleState ==
    [ performance_data |-> performance_data,
      performance_csv |-> performance_csv,
      youtube_service |-> youtube_service ]

\* the cron trigger fires scheduled_run, which calls run_full_pipeline with
\* the modules main() constructed once
ScheduledRun ==
    /\ pc = "scheduler"
    /\ Len(run_starts) < MaxRuns
    /\ run_starts' = Append(run_starts, ModuleState)
    /\ pc' = "scheduled_stages"
    /\ UNCHANGED << exit_code, performance_data, performance_csv,
                    youtube_service >>
    /\ UNCHANGED startupVars
    /\ StartupFrame

\* Uploader._get_youtube_service: the cached service if there is one, else
\* the OAuth flow, whose service is kept in self.youtube_service
get_youtube_service(service, oauth) ==
    IF ~IsNone(service) THEN service
    ELSE IF oauth THEN Service ELSE NoneVal

\* the stages of a scheduled run: either one of the first six fails, or
\* upload_to_youtube is reached and asks for the service
ScheduledStages ==
    /\ pc = "scheduled_stages"
    /\ \E reached \in BOOLEAN, oauth \in BOOLEAN :
        youtube_service' =
            IF reached THEN get_youtube_service(youtube_service, oauth)
            ELSE youtube_service
    /\ pc' = "scheduled_finally"
    /\ UNCHANGED << exit_code, performance_data, performance_csv,
                    run_starts >>
    /\ UNCHANGED startupVars
    /\ StartupFrame

\* the finally clause of a scheduled run: unless load_past_upload_data
\* raises, update_performance_metrics appends a row to
\* self.performance_data and writes the whole frame to the CSV; a failed
\* write is caught after the row was appended in memory
ScheduledFinally ==
    /\ pc = "scheduled_finally"
    /\ \E o \in { "return", "raise" }, saved \in BOOLEAN :
        IF o = "raise"
        THEN UNCHANGED << performance_data, performance_csv >>
        ELSE /\ performance_data' = performance_data + 1
             /\ performance_csv' = IF saved THEN performance_data + 1
                                   ELSE performance_csv
    /\ pc' = "scheduler"
    /\ UNCHANGED << exit_code, youtube_service, run_starts >>
    /\ UNCHANGED startupVars
    /\ StartupFrame

InitMain ==
    /\ pc = "initialize_env"
    /\ NoRun
    /\ Constructed
    /\ NoGeneration
    /\ unwritable = {}
    /\ log_dir = [f \in { LogFileOrder[i] : i \in DOMAIN LogFileOrder }
                     |-> << >>]
    /\ qc_dir = << >>
    /\ dependencies = "installed"
    /\ env_missing \in SUBSET MANDATORY_ENV_VARS
    /\ main_config \in { "loadable", "unloadable" }
    /\ arguments \in CommandLines
    /\ config_loaded = "no"
    /\ performance_csv \in 0..MaxStoredRows
    /\ performance_data = 0
    /\ youtube_service = NoneVal
    /\ run_starts = << >>

NextMain ==
    \/ InitializeEnv
    \/ ImportModules
    \/ ConfigRemoved
    \/ ParseArguments
    \/ LoadConfig
    \/ InitializeModules
    \/ StartScheduler
    \/ ScheduledRun
    \/ ScheduledStages
    \/ ScheduledFinally
    \/ Next

SpecMain == InitMain /\ [][NextMain]_vars

\* ====================================================== the claims
\* ---- vocabulary over the history and the report
Returned == caller = "pipeline" /\ pc = "done" /\ returned = 1

Invoked(fn) == \E i \in DOMAIN calls : calls[i].fn = fn

StageFailed(s) ==
    \E i \in DOMAIN calls :
        calls[i].fn = s /\ calls[i].outcome \in { "raise", "return_falsy" }

StageSucceeded(s) ==
    \E i \in DOMAIN calls : calls[i].fn = s /\ calls[i].outcome = "return"

HasEntry(s) == \E i \in DOMAIN results.stages : results.stages[i].name = s

EntryOf(s) ==
    results.stages[CHOOSE i \in DOMAIN results.stages :
                       results.stages[i].name = s]

\* what the report says of stage s
EntryStatus(s) ==
    IF ~HasEntry(s) THEN "absent"
    ELSE IF EntryOf(s).success THEN "success" ELSE "not_success"

LaterStages(s) ==
    { StageOrder[j] : j \in (StageIndex(s) + 1)..Len(StageOrder) }

\* the upload loop of upload_all_platforms has run to its end
UploadLoopDone ==
    /\ platforms # << >>
    /\ idx > Len(platforms)

Requested == { platforms[i] : i \in DOMAIN platforms }

\* ---- C1
\* C1: when a stage other than quality_control fails, no later stage is
\* invoked, every later stage has an entry in the returned report that marks
\* it as not run, and the report's success flag is false.
C1_FatalFailureMarksLaterStages ==
    Returned =>
        \A s \in StageNames \ { "quality_control" } :
            StageFailed(s) =>
                /\ \A t \in LaterStages(s) : ~Invoked(t)
                /\ \A t \in LaterStages(s) : EntryStatus(t) = "not_success"
                /\ results.success = FALSE

\* the part of C1 the code does keep: a failed stage halts the sequence and
\* the success flag stays false (later stages have no entry at all)
C1_FatalFailureHalts ==
    Returned =>
        \A s \in StageNames \ { "quality_control" } :
            StageFailed(s) =>
                /\ \A t \in LaterStages(s) : ~Invoked(t)
                /\ \A t \in LaterStages(s) : EntryStatus(t) = "absent"
                /\ results.success = FALSE

\* ---- C2
\* C2: when the five stages before quality_control succeed and
\* quality_control fails, upload is still invoked, and the run's success
\* flag is true if the upload stage is recorded as successful.
C2_QualityControlFailureIsAdvisory ==
    ( /\ Returned
      /\ \A i \in 1..5 : StageSucceeded(StageOrder[i])
      /\ StageFailed("quality_control") )
    => /\ Invoked("upload")
       /\ (EntryStatus("upload") = "success" => results.success = TRUE)

\* ---- C3
\* C3: no exception leaves run_full_pipeline; the end time is written at
\* most once and the report returned at most once; a run that is not over
\* can always take its next step; and a run that is over has written the end
\* time once and returned the report once.
C3_NeverRaisesReturnsOnce ==
    /\ ~raised
    /\ end_time_sets <= 1
    /\ returned <= 1
    /\ ((caller = "pipeline" /\ pc # "done") => ENABLED Next)
    /\ ((caller = "pipeline" /\ pc = "done") =>
           /\ returned = 1
           /\ end_time_sets = 1
           /\ ~IsNone(results.end_time))

\* a run that returned although a stage raised and then both a diagnostics
\* call of the except clause and a call of the finally clause raised
C3_Witness ==
    /\ Returned
    /\ \E i \in DOMAIN calls :
           calls[i].fn \in StageNames /\ calls[i].outcome = "raise"
    /\ \E i, j \in DOMAIN calls :
           /\ i < j
           /\ calls[i].fn = "analyze_logs" /\ calls[i].outcome = "raise"
           /\ calls[j].fn = "load_past_upload_data"
           /\ calls[j].outcome = "raise"

\* ---- C4
\* C4: in every run that has returned, analyze_logs was invoked and
\* generate_diagnostic_report was invoked after it.
C4_DiagnosticsAlwaysInvoked ==
    Returned =>
        \E i, j \in DOMAIN calls :
            /\ i < j
            /\ calls[i].fn = "analyze_logs"
            /\ calls[j].fn = "generate_diagnostic_report"

\* ---- C5
\* C5: the returned report has exactly one entry per stage, in the fixed
\* order of the seven stages, and the entry of a stage that ran and failed
\* differs from the entry of a stage that was never reached.
C5_AllSevenStagesHaveEntries ==
    Returned =>
        /\ Len(results.stages) = Len(StageOrder)
        /\ \A i \in DOMAIN results.stages :
               results.stages[i].name = StageOrder[i]
        /\ \A s, t \in StageNames :
               (StageFailed(s) /\ ~Invoked(t)) =>
                   EntryStatus(s) # EntryStatus(t)

\* ---- C6
\* C6: the success value recorded for the upload stage is true exactly when
\* at least one platform outcome of upload_all_platforms is not None.
C6_UploadSuccessIsOrOfPlatforms ==
    HasEntry("upload") =>
        ( EntryOf("upload").success
          <=> \E p \in DOMAIN upload_results : ~IsNone(upload_results[p]) )

\* the upload stage recorded as successful although one platform failed
C6_Witness ==
    /\ HasEntry("upload")
    /\ EntryOf("upload").success
    /\ \E p \in DOMAIN upload_results : IsNone(upload_results[p])
    /\ \E p \in DOMAIN upload_results : ~IsNone(upload_results[p])

\* ---- C7
\* the platforms whose iteration of the loop is over
Dispatched == { platforms[i] : i \in 1..(idx - 1) }

\* C7: upload_all_platforms keeps one outcome for every platform it has
\* dealt with; a platform whose every attempt failed has used its whole
\* retry budget (sleeping 2 then 4 for 3 attempts and base delay 2) and has
\* the outcome None, without the call being stopped; a platform whose upload
\* returned a response keeps that response, whatever the others did.
C7_PlatformsIndependent ==
    /\ (platforms # << >>) => DOMAIN upload_results = Dispatched
    /\ UploadLoopDone => DOMAIN upload_results = Requested
    /\ (pc \in { "upload_platform", "retry_upload" }) => ENABLED Next
    /\ \A p \in DOMAIN upload_results \cap KnownPlatforms :
        LET r == retry[p] IN
        /\ (r.outcome = "raised") =>
               /\ IsNone(upload_results[p])
               /\ r.invocations = r.max_retries
        /\ (r.outcome = "raised" /\ r.max_retries = 3 /\ r.base_delay = 2)
               => r.sleeps = << 2, 4 >>
        /\ (r.outcome = "returned" /\ ~IsNone(r.result)) =>
               upload_results[p] = r.result

\* youtube exhausts 3 attempts with base delay 2 and the two platforms
\* requested after it still get their outcome
C7_Witness ==
    /\ platforms = << "youtube", "vimeo", "tiktok" >>
    /\ UploadLoopDone
    /\ retry["youtube"].outcome = "raised"
    /\ retry["youtube"].sleeps = << 2, 4 >>
    /\ IsNone(upload_results["youtube"])
    /\ IsNone(upload_results["vimeo"])
    /\ upload_results["tiktok"] = Response("tiktok")

\* ---- C8
\* C8: the n-th delay slept by _retry_upload is base_delay * 2^(n-1); while
\* the call is running every failed attempt so far was followed by a sleep,
\* and once it has ended (by raising the final error or by returning a
\* response) it has slept once less than it invoked the operation, so never
\* after the final attempt and never after a success.
C8_BackoffDelays ==
    \A p \in KnownPlatforms :
        LET r == retry[p] IN
        /\ \A n \in DOMAIN r.sleeps :
               r.sleeps[n] = r.base_delay * (2 ^ (n - 1))
        /\ Len(r.sleeps) = Len(r.warnings)
        /\ (r.outcome = "none") => Len(r.sleeps) = r.invocations
        /\ (r.outcome = "raised") =>
               /\ Len(r.sleeps) = r.invocations - 1
               /\ Len(r.sleeps) = Len(r.errors) - 1
        /\ (r.outcome = "returned" /\ ~IsNone(r.result)) =>
               /\ Len(r.sleeps) = r.invocations - 1
               /\ Len(r.sleeps) = Len(r.errors)

\* three delays were slept: base, 2 * base, 4 * base, with base 2
C8_Witness ==
    /\ retry["youtube"].sleeps = << 2, 4, 8 >>
    /\ retry["youtube"].outcome = "returned"

\* ---- C9
\* C9: _retry_upload never invokes the operation more often than
\* max_retries; an invocation that succeeds is the last one (all the
\* invocations before it failed) and its result is what is returned.
C9_AtMostMaxAttempts ==
    \A p \in KnownPlatforms :
        LET r == retry[p] IN
        /\ r.invocations <= r.max_retries
        /\ (r.outcome = "returned" /\ r.invocations > 0) =>
               /\ r.invocations = Len(r.errors) + 1
               /\ r.result = Response(p)
        /\ (r.outcome # "returned") => r.invocations = Len(r.errors)

\* a success at the second of four allowed attempts ended the call
C9_Witness ==
    /\ retry["youtube"].max_retries = 4
    /\ retry["youtube"].invocations = 2
    /\ retry["youtube"].outcome = "returned"
    /\ pc = "done"

\* ---- C10
\* C10: when every one of the max_retries >= 1 attempts failed,
\* _retry_upload has raised, and the error it raised is that of the last
\* attempt (number max_retries); the errors of all the earlier attempts, and
\* only those, were logged as warnings; it raises in no other case.
C10_FinalErrorPropagates ==
    \A p \in KnownPlatforms :
        LET r == retry[p] IN
        /\ (r.max_retries >= 1 /\ Len(r.errors) = r.max_retries) =>
               /\ r.outcome = "raised"
               /\ r.raised_error = r.max_retries
               /\ r.warnings = [n \in 1..(r.max_retries - 1) |-> n]
        /\ (r.outcome = "raised") =>
               /\ Len(r.errors) = r.max_retries
               /\ r.max_retries >= 1
        /\ (r.outcome # "raised") => r.warnings = r.errors

\* three attempts failed: errors 1 and 2 were warnings, error 3 was raised
C10_Witness ==
    /\ retry["youtube"].max_retries = 3
    /\ retry["youtube"].outcome = "raised"
    /\ retry["youtube"].raised_error = 3
    /\ retry["youtube"].warnings = << 1, 2 >>

\* ---- C11
\* the positions of the diagnostics and content-manager calls of the except
\* and the finally clause
FinalizationPositions ==
    { "except_analyze_logs", "except_generate_diagnostic_report",
      "load_past_upload_data", "update_performance_metrics",
      "analyze_logs", "generate_diagnostic_report" }

\* the part of the run report a caller reads the verdict from
Verdict(res) == << res.success, res.error, res.stages >>

\* C11: a step taken at a call of the except or the finally clause
\* (analyze_logs, generate_diagnostic_report, load_past_upload_data,
\* update_performance_metrics), whether the call returns or raises, leaves
\* the success flag, the terminal error and the stage entries of the run
\* report as they were, and the exception does not leave run_full_pipeline.
C11_FinalizationLeavesReport ==
    [][ (pc \in FinalizationPositions) =>
            ( /\ Verdict(results') = Verdict(results)
              /\ pc' # "raise_to_caller"
              /\ raised' = raised )
      ]_vars

\* a returned report of a failed run during which a diagnostics call of the
\* except clause raised and a call of the finally clause raised, too
C11_Witness ==
    /\ Returned
    /\ results.error = StrVal("ingestion returned no results")
    /\ \E i, j \in DOMAIN calls :
           /\ i < j
           /\ calls[i].fn = "generate_diagnostic_report"
           /\ calls[i].outcome = "raise"
           /\ calls[j].fn = "update_performance_metrics"
           /\ calls[j].outcome = "raise"

\* ---- C12
\* the error string the report carries when stage s returned nothing
NoResults(s) == StrVal(s \o " returned no results")

\* the stage whose collaborator returned a falsy result, if there is one
FalsyStages ==
    { s \in StageNames :
        \E i \in DOMAIN calls :
            calls[i].fn = s /\ calls[i].outcome = "return_falsy" }

\* C12: when the collaborator of a stage returned a falsy result, the
\* returned report has an entry for that stage whose status is failed, and
\* the report's terminal error is "<stage> returned no results".
C12_FalsyResultRecordedAsFailed ==
    Returned =>
        \A s \in FalsyStages :
            /\ EntryStatus(s) = "not_success"
            /\ results.error = NoResults(s)

\* what holds of the same runs: the terminal error names the stage, the
\* success flag is false, and the stage has no entry at all
C12_FalsyResultErrorOnly ==
    Returned =>
        \A s \in FalsyStages :
            /\ results.error = NoResults(s)
            /\ ~results.success
            /\ EntryStatus(s) = "absent"

\* ---- C13
Exited == caller = "pipeline" /\ pc = "done" /\ ~IsNone(exit_code)

\* a stage failed in the sense of the report: its collaborator raised or
\* returned nothing, or the upload stage ended with no platform succeeding
AnyStageFailure ==
    \/ \E s \in StageNames : StageFailed(s)
    \/ HasEntry("upload") /\ ~EntryOf("upload").success

\* C13: in single-run mode the exit status is 0 when the run succeeded and
\* 1 when any stage failed, an upload stage in which no platform succeeded
\* included; a failed run ends with a terminal error in its report.
C13_ExitCodeReflectsFailure ==
    Exited =>
        /\ exit_code.value = (IF AnyStageFailure THEN 1 ELSE 0)
        /\ (AnyStageFailure => ~IsNone(results.error))

\* what holds: the exit status is the negation of the success flag
C13_ExitCodeIsSuccessFlag ==
    Exited => (exit_code.value = 0 <=> results.success)

\* ---- vocabulary over the technician's directories and findings
\* an analyze_logs call has been made and nobody wrote anything since
Analyzed == analyze_calls >= 1 /\ quiet

ForeignLines ==
    UNION { { log_dir[f][i] : i \in DOMAIN log_dir[f] } :
              f \in ForeignLogFiles }

\* the number of lines of the foreign log files that are among lines
CountLines(lines) ==
    LET Positions(f) == { i \in DOMAIN log_dir[f] : log_dir[f][i] \in lines }
    IN  Cardinality(Positions("script_generator"))
            + Cardinality(Positions("uploader"))

\* every line of the foreign log files was written by the repository's
\* logging setup
OnlyPersistedLines == ForeignLines \subseteq PersistedLines

\* ---- C14
\* C14: an analyze_logs call made when nobody but the technician itself has
\* written to the log or the QC report directory since the previous call
\* leaves every category of the findings, and the kind of value returned, as
\* the previous call left them.
C14_AnalyzeLogsIdempotent ==
    [][ (analyze_calls' = analyze_calls + 1 /\ quiet) =>
            ( /\ findings' = findings
              /\ analyze_result' = analyze_result )
      ]_vars

\* two calls in a row, the second reading the lines the first one wrote,
\* with errors, warnings, a performance issue and a QC issue found
C14_Witness ==
    /\ repeated
    /\ analyze_calls = 2
    /\ Len(log_dir["technician_agent"]) >= 4
    /\ analyze_result = "findings"
    /\ findings["errors"] # << >>
    /\ findings["performance_issues"] # << >>

\* ---- C15
\* C15: whatever the log files hold, malformed lines included, every
\* well-formed ERROR line and every well-formed WARNING line of every file
\* contributes its entry to the findings of the call.
C15_WellFormedLinesContribute ==
    Analyzed =>
        /\ Cardinality({ i \in DOMAIN findings["errors"] :
               findings["errors"][i].message = StrVal("generation failed") })
             = CountLines({ JsonError })
        /\ Len(findings["warnings"]) = CountLines({ JsonWarning })

\* what holds when no line has JSON text that is not an object: the
\* well-formed lines all contribute, partial lines included in the scan
C15_WithoutNonObjectJson ==
    (Analyzed /\ NumberErrorLine \notin ForeignLines) =>
        /\ Cardinality({ i \in DOMAIN findings["errors"] :
               findings["errors"][i].message = StrVal("generation failed") })
             = CountLines({ JsonError })
        /\ Len(findings["warnings"]) = CountLines({ JsonWarning })

\* ---- C16
\* C16: after an analyze_logs call, whether it succeeded or failed part-way,
\* no category of the findings holds items that an earlier call put there.
C16_NoCategoryCarriesOver ==
    analyze_calls >= 1 =>
        \A k \in DOMAIN findings :
            findings_call[k] < analyze_calls => findings[k] = << >>

\* what holds: a call that returned the findings assigned every category
C16_SuccessfulCallIsFresh ==
    (analyze_calls >= 1 /\ analyze_result = "findings") =>
        \A k \in DOMAIN findings : findings_call[k] = analyze_calls

\* ---- C17
\* the lines whose level column holds the given level
AtLevel(level) == { line \in WrittenLines : line.levelname = level }

\* C17: when the log files hold only lines written by the repository's
\* logging setup, the findings of the first analyze_logs call hold one error
\* for each ERROR-level line and one warning for each WARNING-level line.
C17_OneFindingPerLevelLine ==
    (Analyzed /\ analyze_calls = 1 /\ OnlyPersistedLines) =>
        /\ Len(findings["errors"]) = CountLines(AtLevel("ERROR"))
        /\ Len(findings["warnings"]) = CountLines(AtLevel("WARNING"))

\* what holds: such files yield no error and no warning at all
C17_PersistedLinesYieldNothing ==
    (Analyzed /\ OnlyPersistedLines) =>
        /\ findings["errors"] = << >>
        /\ findings["warnings"] = << >>

\* ---- C18
\* the log file of the collaborator that runs a stage
LogFileOf(stage) ==
    IF stage = "script_generation" THEN "script_generator" ELSE "none"

\* the duration records the collaborator of a stage persisted
PersistedSamples(stage) ==
    IF LogFileOf(stage) \notin DOMAIN log_dir THEN << >>
    ELSE SelectSeq(log_dir[LogFileOf(stage)], LAMBDA line :
             /\ line.tail.kind = "object"
             /\ "duration_sec" \in DOMAIN line.tail.obj)

RECURSIVE TotalSeconds(_)
TotalSeconds(lines) ==
    IF lines = << >> THEN 0
    ELSE Head(lines).tail.obj["duration_sec"].value
             + TotalSeconds(Tail(lines))

Reported(stage) ==
    \E i \in DOMAIN findings["performance_issues"] :
        findings["performance_issues"][i].module = stage

\* C18: when the log files hold only lines written by the repository's
\* logging setup, a stage with a benchmark is reported as a performance
\* issue exactly when the mean of the durations its collaborator persisted
\* is greater than 1.5 times the benchmark.
C18_PersistedDurationsFlagged ==
    (Analyzed /\ analyze_result = "findings" /\ OnlyPersistedLines) =>
        \A i \in DOMAIN BenchmarkedModules :
            LET stage == BenchmarkedModules[i]
                samples == PersistedSamples(stage)
            IN  Reported(stage) <=>
                    /\ samples # << >>
                    /\ 2 * TotalSeconds(samples)
                           > 3 * expected_timings(stage) * Len(samples)

\* the duration records that carry the stage in a "name" key
NamedSamples(stage) ==
    LET Named(f) ==
            SelectSeq(log_dir[f], LAMBDA line :
                /\ line.tail.kind = "object"
                /\ "duration_sec" \in DOMAIN line.tail.obj
                /\ line.tail.obj["duration_sec"].type = "float"
                /\ "name" \in DOMAIN line.tail.obj
                /\ line.tail.obj["name"] = StrVal(stage))
    IN  Named("script_generator") \o Named("uploader")

\* what holds when every line is read: records that name their stage are
\* grouped by it and the stage is reported exactly when their mean is above
\* 1.5 times the benchmark
C18_NamedDurationsFlagged ==
    (/\ Analyzed
     /\ analyze_result = "findings"
     /\ NumberErrorLine \notin ForeignLines) =>
        \A i \in DOMAIN BenchmarkedModules :
            LET stage == BenchmarkedModules[i]
                samples == NamedSamples(stage)
            IN  Reported(stage) <=>
                    /\ samples # << >>
                    /\ 2 * TotalSeconds(samples)
                           > 3 * expected_timings(stage) * Len(samples)

\* ---- C19
\* the number of suggestions of a priority list that are about a finding
About(list, category, subject) ==
    Cardinality({ i \in DOMAIN list :
        list[i].category = category /\ list[i].subject = subject })

\* the finding has one suggestion, in the given priority, and none elsewhere
OnlyIn(plan, priority, category, subject) ==
    /\ About(plan[priority], category, subject) = 1
    /\ \A other \in { "critical", "recommended", "optional" } \ {priority} :
           About(plan[other], category, subject) = 0

\* C19: in a report that was written, every dependency issue has exactly
\* one suggestion and it is critical; every performance issue has exactly
\* one suggestion, critical when its mean is above twice the benchmark,
\* otherwise recommended when the module has alternatives and optional when
\* it has none; every QC issue with a score below 3 has exactly one
\* suggestion and it is critical, and one with a higher score has none.
C19_OnePriorityPerFinding ==
    report_outcome = "returned" =>
        LET f == dump_file.content
            plan == plan_file.content
        IN  /\ \A i \in DOMAIN f["dependency_issues"] :
                   OnlyIn(plan, "critical", "dependency_issues",
                          f["dependency_issues"][i].module)
            /\ \A i \in DOMAIN f["performance_issues"] :
                   LET p == f["performance_issues"][i] IN
                   OnlyIn(plan,
                          IF p.total > 2 * p.expected_time * p.count
                          THEN "critical"
                          ELSE IF tool_alternatives(p.module) # << >>
                               THEN "recommended" ELSE "optional",
                          "performance_issues", p.module)
            /\ \A i \in DOMAIN f["qc_issues"] :
                   LET q == f["qc_issues"][i] IN
                   IF q.score < 3
                   THEN OnlyIn(plan, "critical", "qc_issues", q.source)
                   ELSE \A priority \in { "critical", "recommended",
                                          "optional" } :
                            About(plan[priority], "qc_issues", q.source) = 0

\* a written report over a missing dependency, a performance issue at
\* exactly twice the benchmark and a QC issue with a low score
C19_Witness ==
    /\ report_outcome = "returned"
    /\ dump_file.content["dependency_issues"] # << >>
    /\ \E i \in DOMAIN dump_file.content["performance_issues"] :
           LET p == dump_file.content["performance_issues"][i] IN
           p.total = 2 * p.expected_time * p.count
    /\ plan_file.content.optional # << >>
    /\ \E i \in DOMAIN dump_file.content["qc_issues"] :
           dump_file.content["qc_issues"][i].score < 3

\* ---- C20
\* C20: generate_diagnostic_report never ends by raising, and when it has
\* ended both the findings dump and the upgrade plan are written.
C20_ReportAlwaysWritten ==
    /\ report_outcome # "raised"
    /\ (report_outcome = "returned" =>
           ~IsNone(dump_file) /\ ~IsNone(plan_file))

\* what holds: the call raises exactly when no analyze_logs call has got as
\* far as assigning the QC issues, and the dump is written even then
C20_RaisesWithoutQCIssues ==
    report_outcome # "none" =>
        /\ ~IsNone(dump_file)
        /\ (report_outcome = "raised" =>
               "qc_issues" \notin DOMAIN dump_file.content)

\* ------------------------------------------------------------------- C22
\* the invocations of stage collaborators, in the order they were made
IsStageCall(c) == c.fn \in StageNames
StageCalls == SelectSeq(calls, IsStageCall)

\* the values stage s's predecessors returned in this run, and the source
InputsAvailable(i) ==
    {SourcePath}
      \cup {locals[StageOrder[k]] : k \in 1..(i - 1)}
      \cup (IF i > StageIndex("voice_generation")
            THEN {locals["voice_generation"].items.voiceover} ELSE {})

\* C22: within one run the stage collaborators are invoked in the fixed
\* order, each at most once, stage k+1 only after stage k returned, and
\* each is handed outputs of its predecessors: composition the animation
\* and the voiceover, upload the composed video and the script.
C22_StagesSequentialWithInputs ==
    \A i \in 1..Len(StageCalls) :
        LET c == StageCalls[i] IN
        /\ i <= Len(StageOrder)
        /\ c.fn = StageOrder[i]
        /\ (i > 1) => StageCalls[i - 1].outcome = "return"
        /\ \A a \in 1..Len(c.args) : c.args[a] \in InputsAvailable(i)
        /\ (c.fn = "video_composition") =>
               c.args = << locals["animation"],
                           locals["voice_generation"].items.voiceover >>
        /\ (c.fn = "upload") =>
               c.args = << locals["video_composition"],
                           locals["script_generation"] >>

\* a run in which all seven collaborators were invoked
C22_Witness ==
    /\ Len(StageCalls) = Len(StageOrder)
    /\ StageCalls[Len(StageOrder)].fn = "upload"
    /\ Returned

\* ------------------------------------------------------------------- C26
NonAdvisoryStages == StageNames \ {"quality_control"}

\* C26: a returned report whose success flag is true has, for each of the
\* six non-advisory stages, an entry whose success value is true.
C26_SuccessMeansEveryStageSucceeded ==
    (Returned /\ results.success) =>
        \A s \in NonAdvisoryStages : HasEntry(s) /\ EntryOf(s).success

\* what does hold: the five stages before quality control and upload are
\* recorded with success true, and the upload stage has an entry
C26_SuccessMeansStagesBeforeUploadSucceeded ==
    (Returned /\ results.success) =>
        /\ \A s \in NonAdvisoryStages \ {"upload"} :
               HasEntry(s) /\ EntryOf(s).success
        /\ HasEntry("upload")

\* ------------------------------------------------------------------- C27
\* process_script returned its dict with no voiceover in it
NoVoiceover ==
    /\ "voice_generation" \in DOMAIN locals
    /\ IsNone(locals["voice_generation"].items.voiceover)

\* C27: when voice generation produces no voiceover the run stops at
\* voice_generation: that stage is not recorded with success true,
\* video_composition is not invoked, and the terminal error of the returned
\* report names voice_generation.
C27_NoVoiceoverStopsAtVoiceGeneration ==
    NoVoiceover =>
        /\ EntryStatus("voice_generation") # "success"
        /\ ~Invoked("video_composition")
        /\ Returned =>
               results.error = StrVal("voice_generation returned no results")

\* what the code does instead: the stage is recorded as a success
C27_NoVoiceoverRecordedAsSuccess ==
    NoVoiceover => EntryStatus("voice_generation") = "success"

\* ------------------------------------------------------------------- C25
\* C25: the retry loops of generate_script and generate_voiceover follow the
\* Backoff Retrier contract: the n-th delay slept is retry_delay * 2^(n-1),
\* at most max_retries attempts are made, and no delay is slept after the
\* final failed attempt.
C25_GeneratorsFollowBackoffContract ==
    (generator \in Generators) =>
        /\ \A n \in 1..Len(slept) :
               slept[n] = gen_config.retry_delay * (2 ^ (n - 1))
        /\ client_calls <= gen_config.max_retries
        /\ (gen_status = "exhausted" /\ client_calls > 0) =>
               Len(slept) = client_calls - 1

\* what the loops do: a constant delay after every empty answer, the last
\* one included, within the attempt budget
C25_GeneratorsSleepConstantDelay ==
    (generator \in Generators) =>
        /\ \A n \in 1..Len(slept) : slept[n] = gen_config.retry_delay
        /\ client_calls <= gen_config.max_retries
        /\ (gen_status = "exhausted") => Len(slept) = client_calls

\* ------------------------------------------------------------------- C28
\* the calls of _retry_upload that have ended
Ended(p) == retry[p].outcome \in { "returned", "raised" }

\* C28: for every retry budget, zero included, _retry_upload invokes the
\* operation at least once, and it returns normally only with the result
\* of an attempt that succeeded.
C28_OperationInvokedBeforeReturn ==
    \A p \in DOMAIN retry :
        Ended(p) =>
            /\ retry[p].invocations >= 1
            /\ (retry[p].outcome = "returned") =>
                   /\ retry[p].result = Response(p)
                   /\ Len(retry[p].errors) = retry[p].invocations - 1

\* what does hold: the same, for a budget of at least one attempt
C28_OperationInvokedWithinPositiveBudget ==
    \A p \in DOMAIN retry :
        (Ended(p) /\ retry[p].max_retries >= 1) =>
            /\ retry[p].invocations >= 1
            /\ (retry[p].outcome = "returned") =>
                   /\ retry[p].result = Response(p)
                   /\ Len(retry[p].errors) = retry[p].invocations - 1

\* ------------------------------------------------------------------- C29
\* a finalization or diagnostics call of this run raised
FinalizationFailed ==
    \E i \in DOMAIN calls :
        calls[i].fn \notin StageNames /\ calls[i].outcome = "raise"

\* C29: in every returned report the success flag is true exactly when the
\* error field is None, whatever the stages and the finalization calls did.
C29_SuccessIffNoError ==
    Returned => (results.success <=> IsNone(results.error))

\* a successful run whose finalization failed, and still no error recorded
C29_Witness ==
    /\ Returned
    /\ results.success
    /\ FinalizationFailed
    /\ IsNone(results.error)

\* ------------------------------------------------------------------- C30
\* the positions in the history at which generate_diagnostic_report was
\* invoked
ReportInvocations ==
    { i \in DOMAIN calls : calls[i].fn = "generate_diagnostic_report" }

\* C30: within a run, every invocation of generate_diagnostic_report is
\* immediately preceded by an invocation of analyze_logs that returned
\* without raising, in the failure handler and in finalization alike.
C30_ReportFollowsAnalysis ==
    \A i \in ReportInvocations :
        /\ i > 1
        /\ calls[i - 1].fn = "analyze_logs"
        /\ calls[i - 1].outcome # "raise"

\* a failed run that generated the report twice: once in the failure
\* handler and once in finalization
C30_Witness ==
    /\ Returned
    /\ ~results.success
    /\ Cardinality(ReportInvocations) = 2

\* ------------------------------------------------------------------- C21
\* generate_diagnostic_report was called, and its markdown was generated
ReportGenerated == report_outcome = "returned"

\* C21: the two artifact writes of generate_diagnostic_report are
\* independent: every call attempts the findings dump, a generated plan is
\* attempted whether or not the dump could be written, and a dump that was
\* written stays as written whether or not the plan could be.
C21_ArtifactWritesIndependent ==
    (report_outcome # "none") =>
        /\ Len(writes) >= 1
        /\ writes[1].file = "diagnostic.log"
        /\ ReportGenerated =>
               Len(writes) = 2 /\ writes[2].file = "upgrade_plan.md"
        /\ writes[1].ok =>
               dump_file = [type |-> "file", content |-> writes[1].content]
        /\ (ReportGenerated /\ writes[2].ok) =>
               plan_file = [type |-> "file", content |-> writes[2].content]

\* the dump could not be written, and the plan was attempted and written
C21_Witness ==
    /\ ReportGenerated
    /\ ~writes[1].ok
    /\ IsNone(dump_file)
    /\ writes[2].ok
    /\ ~IsNone(plan_file)

\* ------------------------------------------------------------------- C23
\* a module state that owes nothing to earlier runs: the frame holds what
\* the CSV on disk holds, and no service is cached
Fresh(m) ==
    /\ m.performance_data = m.performance_csv
    /\ IsNone(m.youtube_service)

\* C23: in a scheduler process every run starts from in-memory state that
\* does not depend on the runs before it: only the files on disk carry
\* over.
C23_RunsShareNoMemory ==
    \A i \in DOMAIN run_starts : Fresh(run_starts[i])

\* what does hold: the first run of the process starts fresh
C23_FirstRunStartsFresh ==
    (run_starts # << >>) => Fresh(run_starts[1])

\* ------------------------------------------------------------------- C24
\* a mandatory variable is missing, or loading the configuration failed
StartupFailed == env_missing # {} \/ config_loaded = "failed"

\* C24: when a mandatory environment variable is missing or the main
\* configuration cannot be loaded, the process exits with code 1 before
\* any stage collaborator is invoked and before any run report is created.
C24_FailedStartupExitsBeforeAnyStage ==
    StartupFailed =>
        /\ calls = << >>
        /\ caller = "none"
        /\ run_starts = << >>
        /\ (env_missing # {}) => pc \in { "initialize_env", "exited" }
        /\ (config_loaded = "failed") => pc = "exited"
        /\ (pc = "exited") => exit_code = IntVal(1)

\* the configuration went missing after the imports, and load_config
\* ended the process
C24_Witness ==
    /\ pc = "exited"
    /\ env_missing = {}
    /\ config_loaded = "failed"
    /\ arguments = "schedule"
    /\ exit_code = IntVal(1)

====
